---- MODULE Spec2Model ----
(***************************************************************************)
(* Model of SecureListenSocket::accept() (src/lib/net/SecureListenSocket   *)
(* .cpp): the listening job of the listen socket, the accept -> wrap ->    *)
(* re-arm -> certificate load -> handshake sequence, and its two catch     *)
(* handlers.  Every call into a collaborator (ARCH->acceptSocket, the      *)
(* SecureSocket constructor, initSsl, loadCertificates, secureAccept) is   *)
(* one step whose outcome is chosen among returning and raising.           *)
(***************************************************************************)
EXTENDS Integers, Sequences, FiniteSets, TLC

\* ------------------------------------------------------------------ bounds
\* Number of clients that ever connect to the listener.
MaxClients == 3

\* --------------------------------------------------------------- constants
s_certificateDir == "tls"
s_certificateFileExt == "pem"
kAppId == "deskflow"

\* The null pointer; connection objects are numbered from 1.
NULL == 0

\* What a call into a collaborator can raise: XArchNetwork (the class caught
\* at line 79; XArchNetworkWouldBlock is the subclass signalling that no
\* connection was pending) or any other std::exception (line 85).
XArchNetworkKinds == {"XArchNetwork", "XArchNetworkWouldBlock"}
Exceptions == XArchNetworkKinds \cup {"std_exception"}

\* Values of the configuration the call reads.
ProfileDirectories == {"/home/u/.config/app", "/p"}
TlsCertFiles == {"", "X", "/etc/alt.pem"}

VARIABLES
  armed,               \* the listening job is registered with the multiplexer
  pending,             \* connections waiting in the listen queue
  arrived,             \* clients that have connected so far
  pc,                  \* position of the accept() call
  socket,              \* local: SecureSocket *socket (NULL or a connection)
  conns,               \* connection objects created so far, their state
  exc,                 \* exception in flight to the handlers, or "none"
  raisedAt,            \* step that raised it, or "none"
  certificateFilename, \* local: std::string certificateFilename
  loads,               \* arguments of loadCertificates in this call, in order
  loaded,              \* local: bool loaded ("unset" until line 70 returns)
  handshakes,          \* connections on which secureAccept() was called
  rearms,              \* number of setListeningJob() calls made by this call
  lastPath,            \* certificateFilename of the latest earlier call, or ""
  result,              \* how the call ended: "none", "null", "socket", "throw"
  m_tlsCertFile,       \* ArgParser::argsBase().m_tlsCertFile
  profileDirectory,    \* ARCH->getProfileDirectory()
  bundles,             \* paths holding a loadable certificate bundle
  allInterfaces,       \* QNetworkInterface::allInterfaces(): the host's interfaces
  m_lastAddresses,     \* NetworkMonitor: addresses recorded by the last update
  m_lastActiveInterfaces,  \* NetworkMonitor: their human readable names
  m_lastNetworkInterfaces, \* NetworkMonitor: interfaces recorded by the last update
  m_selectedIPAddress, \* NetworkMonitor: the address the user selected, or null
  m_isMonitoring,      \* NetworkMonitor: the monitoring flag
  timerActive,         \* m_checkTimer->isActive()
  timerInterval,       \* m_checkTimer->interval()
  answer,              \* what the monitor operation just called did and gave back
  reportsInARow        \* updates that reported a change since the host or the
                       \* selection last changed (counted up to 2)

vars == <<armed, pending, arrived, pc, socket, conns, exc, raisedAt,
          certificateFilename, loads, loaded, handshakes, rearms, result,
          lastPath, m_tlsCertFile, profileDirectory, bundles,
          allInterfaces, m_lastAddresses, m_lastActiveInterfaces,
          m_lastNetworkInterfaces, m_selectedIPAddress, m_isMonitoring,
          timerActive, timerInterval, answer, reportsInARow>>

env == <<m_tlsCertFile, profileDirectory, bundles>>
listener == <<armed, pending, arrived, pc, socket, conns, exc, raisedAt,
              certificateFilename, loads, loaded, handshakes, rearms, result,
              lastPath, m_tlsCertFile, profileDirectory, bundles>>
recorded == <<m_lastAddresses, m_lastActiveInterfaces, m_lastNetworkInterfaces>>
timer == <<m_isMonitoring, timerActive, timerInterval>>
monitor == <<allInterfaces, recorded, m_selectedIPAddress, timer, answer,
             reportsInARow>>
queue == <<pending, arrived>>
hist == <<loaded, handshakes>>

\* ---------------------------------------------------------- pure helpers
\* Faulty variant: the format string without the dot before the extension.
Sprintf4_NoDot(a, b, c, d) == a \o "/" \o b \o "/" \o c \o d

\* deskflow::string::sprintf("%s/%s/%s.%s", a, b, c, d)
Sprintf4(a, b, c, d) == a \o "/" \o b \o "/" \o c \o "." \o d

\* Faulty variant: the option is tried only as a fallback name, the default wins.
CertificateFilename_DefaultWins(profile, tlsCertFile) ==
  Sprintf4(profile, s_certificateDir, kAppId, s_certificateFileExt)

\* Lines 60-68: the default location, replaced by the option when it is set.
CertificateFilename(profile, tlsCertFile) ==
  LET dflt == Sprintf4(profile, s_certificateDir, kAppId, s_certificateFileExt)
  IN IF tlsCertFile # "" THEN tlsCertFile ELSE dflt

\* Faulty variant: the path resolved by an earlier call is kept and reused.
ResolvePath_Cached(prev, profile, tlsCertFile) ==
  IF prev # "" THEN prev ELSE CertificateFilename(profile, tlsCertFile)

\* Lines 61-68: certificateFilename is a local, computed in every call from
\* the profile directory and the option as they are then.
ResolvePath(prev, profile, tlsCertFile) ==
  CertificateFilename(profile, tlsCertFile)

BundlePaths ==
  (TlsCertFiles \ {""}) \cup
  {CertificateFilename(p, "") : p \in ProfileDirectories}

\* catch (XArchNetwork &) matches the class and its subclasses.
IsXArchNetwork(e) == e \in XArchNetworkKinds

\* Faulty variant: socket keeps the value the previous call left in it.
SocketAtEntry_Stale(prev) == prev

\* Line 51: SecureSocket *socket = NULL;
SocketAtEntry(prev) == NULL

\* Faulty variant: accept() refuses to run while no listening job is registered.
AcceptPrecondition_Armed(a) == a

\* Lines 49-53: accept() starts the raw accept without looking at the
\* registration.
AcceptPrecondition(a) == TRUE

\* Faulty variant: the re-arm of line 57 is left to the end of the call.
RearmAfterInit_Never(s) == FALSE

\* Line 56: if (socket != NULL)
RearmAfterInit(s) == s # NULL

\* Faulty variant: the handlers neither delete nor re-arm.
HandlerCleans_Never(s) == FALSE

\* Lines 80 and 86: if (socket != NULL)
HandlerCleans(s) == s # NULL

\* Faulty variant: the second handler swallows the exception as the first does.
HandlerResult_Swallow(e) == "null"

\* Lines 79-91: the first handler returns NULL, the second rethrows.
HandlerResult(e) == IF IsXArchNetwork(e) THEN "null" ELSE "throw"

\* Faulty variant: the test of loaded is inverted.
AfterLoad_Inverted(ok) == IF ok THEN "deleteReturn" ELSE "secureAccept"

\* Faulty variant: the result of loadCertificates is ignored.
AfterLoad_Ignored(ok) == "secureAccept"

\* Lines 71-76: a failed load deletes the socket and returns NULL.
AfterLoad(ok) == IF ~ok THEN "deleteReturn" ELSE "secureAccept"

\* SecureSocket::loadCertificates(path): true when the bundle at path loads.
LoadCertificatesResult(path, fs) == path \in fs

\* ARCH->acceptSocket: returns a connection when one is pending, raises
\* would-block when none is; it can also fail in the network layer or
\* otherwise.
AcceptSocketOutcomes(n) ==
  (IF n > 0 THEN {"ok"} ELSE {"XArchNetworkWouldBlock"})
    \cup {"XArchNetwork", "std_exception"}

StepOutcomes == {"ok", "XArchNetwork", "std_exception"}

\* ------------------------------------------------- NetworkMonitor: values
\* QHostAddress: a protocol and the address bytes; QHostAddress() is null.
NullAddress == [proto |-> "Unknown", o |-> <<>>]
IPv4(a, b, c, d) == [proto |-> "IPv4", o |-> <<a, b, c, d>>]
LocalHost == IPv4(127, 0, 0, 1)
Ten == IPv4(10, 0, 0, 5)
Home == IPv4(192, 168, 1, 10)
LinkLocal == IPv4(169, 254, 7, 7)
V6 == [proto |-> "IPv6", o |-> <<254, 128, 1>>]

\* QNetworkInterface: name, flags and address entries.
Interface(n, u, r, l, a) ==
  [name |-> n, up |-> u, running |-> r, loopback |-> l, addrs |-> a]
Lo == Interface("lo", TRUE, TRUE, TRUE, <<LocalHost>>)

\* States of the two network cards of the host: down, up but without
\* carrier, up and running.
Links == {<<FALSE, FALSE>>, <<TRUE, FALSE>>, <<TRUE, TRUE>>}
EthAddrs == {<<>>, <<Ten>>, <<LinkLocal, V6, Ten>>}
WlanAddrs == {<<>>, <<Home>>}
Hosts ==
  {<<Lo, Interface("eth0", e[1], e[2], FALSE, ea),
         Interface("wlan0", w[1], w[2], FALSE, wa)>> :
     e \in Links, ea \in EthAddrs, w \in Links, wa \in WlanAddrs}
SelectableAddresses == {NullAddress, Ten, Home}
Intervals == {1000, 3000}

NoAnswer == [op |-> "none", value |-> FALSE, signals |-> {}]
Answer(o, v, sig) == [op |-> o, value |-> v, signals |-> sig]

\* QHostAddress::isInSubnet(parseSubnet("a.b/16"))
IsInSubnet16(addr, a, b) ==
  addr.proto = "IPv4" /\ addr.o[1] = a /\ addr.o[2] = b

\* QVector::contains
Contains(list, x) == \E i \in DOMAIN list : list[i] = x

RECURSIVE Flatten(_)
Flatten(lists) ==
  IF lists = <<>> THEN <<>> ELSE Head(lists) \o Flatten(Tail(lists))

\* QNetworkInterface::allAddresses() is static: every address of every
\* interface of the host that is up, whichever object it is called on.
AllAddresses(ifs) ==
  Flatten([i \in DOMAIN ifs |-> IF ifs[i].up THEN ifs[i].addrs ELSE <<>>])

\* Lines 61-63 and 232-234: up, running and not the loopback.
IsActive(i) == i.up /\ i.running /\ ~i.loopback

\* Lines 66-68: IPv4, not 127.0.0.1, not link-local.
IsUsable(addr) ==
  /\ addr.proto = "IPv4"
  /\ addr # LocalHost
  /\ ~IsInSubnet16(addr, 169, 254)

\* NetworkMonitor::getAvailableIPv4Addresses, lines 56-76
GetAvailableIPv4Addresses(ifs) ==
  Flatten([i \in DOMAIN ifs |->
             IF IsActive(ifs[i])
               THEN SelectSeq(AllAddresses(ifs), IsUsable)
               ELSE <<>>])

\* NetworkMonitor::getActiveNetworkInterfaces, lines 227-240
GetActiveNetworkInterfaces(ifs) == SelectSeq(ifs, IsActive)

Names(ifs) == [i \in DOMAIN ifs |-> ifs[i].name]

\* Lines 93-98: the test of the first loop of the default logic.
IsPreferred(addr) == IsInSubnet16(addr, 192, 168)

\* Faulty variant: the loop over 192.168.x.x addresses is missing.
GetSuggestedIPv4Address_FirstOnly(selected, addresses) ==
  IF selected # NullAddress /\ Contains(addresses, selected)
    THEN selected
    ELSE IF addresses # <<>> THEN Head(addresses) ELSE NullAddress

\* NetworkMonitor::getSuggestedIPv4Address, lines 78-118 (lines 105-115
\* repeat lines 93-103 and are never reached with a non-empty list).
GetSuggestedIPv4Address(selected, addresses) ==
  IF selected # NullAddress /\ Contains(addresses, selected)
    THEN selected
    ELSE LET preferred == SelectSeq(addresses, IsPreferred)
         IN IF preferred # <<>> THEN Head(preferred)
            ELSE IF addresses # <<>> THEN Head(addresses)
            ELSE NullAddress

\* Lines 124-132 and 174-182: the sizes differ, or a current address is not
\* among the recorded ones.
AddressesChanged(current, last) ==
  \/ Len(current) # Len(last)
  \/ \E i \in DOMAIN current : ~Contains(last, current[i])

\* Lines 184-199: the same test on the interfaces, by name.
InterfacesChanged(current, last) ==
  \/ Len(current) # Len(last)
  \/ \E i \in DOMAIN current :
       ~\E j \in DOMAIN last : current[i].name = last[j].name

\* Lines 135-146 and 202-212: a selected address that is not available.
SelectedIPChanged(selected, current) ==
  selected # NullAddress /\ ~Contains(current, selected)

\* NetworkMonitor::hasNetworkChanged, lines 120-149
HasNetworkChanged(ifs, last, selected) ==
  LET currentAddresses == GetAvailableIPv4Addresses(ifs)
  IN \/ AddressesChanged(currentAddresses, last)
     \/ SelectedIPChanged(selected, currentAddresses)

\* NetworkMonitor::hasMultipleActiveNetworks, lines 151-155
HasMultipleActiveNetworks(ifs) == Len(GetActiveNetworkInterfaces(ifs)) > 1

\* Faulty variant: startMonitoring without its guard.
StartReturnsEarly_Never(monitoring) == FALSE

\* Line 26: if (m_isMonitoring) return;
StartReturnsEarly(monitoring) == monitoring

\* Line 40: if (!m_isMonitoring) return;
StopReturnsEarly(monitoring) == ~monitoring

\* ------------------------------------------------------------------ state
\* NetworkMonitor::NetworkMonitor, lines 15-22: nothing recorded, no
\* selection, the timer created but not started.
MonitorConstructed ==
  /\ m_lastAddresses = <<>>
  /\ m_lastActiveInterfaces = <<>>
  /\ m_lastNetworkInterfaces = <<>>
  /\ m_selectedIPAddress = NullAddress
  /\ m_isMonitoring = FALSE
  /\ timerActive = FALSE
  /\ timerInterval = 0
  /\ answer = NoAnswer
  /\ reportsInARow = 0

Init ==
  /\ armed = TRUE
  /\ pending = 0
  /\ arrived = 0
  /\ pc = "idle"
  /\ socket = NULL
  /\ conns = <<>>
  /\ exc = "none"
  /\ raisedAt = "none"
  /\ certificateFilename = ""
  /\ loads = <<>>
  /\ loaded = "unset"
  /\ handshakes = {}
  /\ rearms = 0
  /\ lastPath = ""
  /\ result = "none"
  /\ m_tlsCertFile \in TlsCertFiles
  /\ profileDirectory \in ProfileDirectories
  /\ bundles \in SUBSET BundlePaths
  /\ MonitorConstructed
  /\ allInterfaces = <<Lo>>

\* TCPListenSocket::setListeningJob(): registers the listening job.
SetListeningJob ==
  /\ armed' = TRUE
  /\ rearms' = rearms + 1

Raise(e, step) ==
  /\ exc' = e
  /\ raisedAt' = step
  /\ pc' = "catch"

\* ------------------------------------------------------------ environment
ClientArrives ==
  /\ arrived < MaxClients
  /\ arrived' = arrived + 1
  /\ pending' = pending + 1
  /\ UNCHANGED <<armed, pc, socket, conns, exc, raisedAt, certificateFilename,
                 loads, rearms, result, env, hist>>
  /\ UNCHANGED <<lastPath, monitor>>

ClientWithdraws ==
  /\ pending > 0
  /\ pending' = pending - 1
  /\ UNCHANGED <<armed, arrived, pc, socket, conns, exc, raisedAt,
                 certificateFilename, loads, rearms, result, env, hist>>
  /\ UNCHANGED <<lastPath, monitor>>

SetTlsCertFile ==
  /\ pc = "idle"
  /\ \E f \in TlsCertFiles \ {m_tlsCertFile} : m_tlsCertFile' = f
  /\ UNCHANGED <<armed, queue, pc, socket, conns, exc, raisedAt,
                 certificateFilename, loads, rearms, result, profileDirectory,
                 bundles, hist>>
  /\ UNCHANGED <<lastPath, monitor>>

\* The multiplexer reports the listen socket readable: the listening job is
\* dropped until accept() registers it again, and accept() is called.
Dispatch ==
  /\ pc = "idle"
  /\ armed
  /\ pending > 0
  /\ armed' = FALSE
  /\ pc' = "acceptSocket"
  /\ socket' = SocketAtEntry(socket)
  /\ lastPath' = IF certificateFilename # "" THEN certificateFilename ELSE lastPath
  /\ exc' = "none"
  /\ raisedAt' = "none"
  /\ certificateFilename' = ""
  /\ loads' = <<>>
  /\ loaded' = "unset"
  /\ rearms' = 0
  /\ result' = "none"
  /\ UNCHANGED <<queue, conns, handshakes, env, monitor>>

\* ---------------------------------------------------------------- accept()
\* Line 53, argument: ARCH->acceptSocket(m_socket, NULL)
AcceptSocket ==
  /\ pc = "acceptSocket"
  /\ AcceptPrecondition(armed)
  /\ \E o \in AcceptSocketOutcomes(pending) :
       IF o = "ok"
         THEN /\ pending' = pending - 1
              /\ pc' = "construct"
              /\ UNCHANGED <<exc, raisedAt>>
         ELSE /\ Raise(o, "acceptSocket")
              /\ UNCHANGED pending
  /\ UNCHANGED <<armed, arrived, socket, conns, certificateFilename, loads,
                 rearms, result, env, hist>>
  /\ UNCHANGED <<lastPath, monitor>>

\* Line 53: socket = new SecureSocket(...); the assignment happens only when
\* the constructor returns.
Construct ==
  /\ pc = "construct"
  /\ \E o \in StepOutcomes :
       IF o = "ok"
         THEN /\ conns' = Append(conns, "Created")
              /\ socket' = Len(conns) + 1
              /\ pc' = "initSsl"
              /\ UNCHANGED <<exc, raisedAt>>
         ELSE /\ Raise(o, "construct")
              /\ UNCHANGED <<socket, conns>>
  /\ UNCHANGED <<armed, queue, certificateFilename, loads, rearms, result, env,
                 hist>>
  /\ UNCHANGED <<lastPath, monitor>>

\* Line 54: socket->initSsl(true)
InitSsl ==
  /\ pc = "initSsl"
  /\ \E o \in StepOutcomes :
       IF o = "ok"
         THEN /\ pc' = "rearm"
              /\ UNCHANGED <<exc, raisedAt>>
         ELSE Raise(o, "initSsl")
  /\ UNCHANGED <<armed, queue, socket, conns, certificateFilename, loads,
                 rearms, result, env, hist>>
  /\ UNCHANGED <<lastPath, monitor>>

\* Lines 56-68: re-arm, then resolve the certificate path.
RearmAndResolve ==
  /\ pc = "rearm"
  /\ IF RearmAfterInit(socket)
       THEN SetListeningJob
       ELSE UNCHANGED <<armed, rearms>>
  /\ certificateFilename' = ResolvePath(lastPath, profileDirectory, m_tlsCertFile)
  /\ pc' = "loadCertificates"
  /\ UNCHANGED <<queue, socket, conns, exc, raisedAt, loads, result, env, hist>>
  /\ UNCHANGED <<lastPath, monitor>>

\* Lines 70-74: bool loaded = socket->loadCertificates(certificateFilename)
LoadCertificates ==
  /\ pc = "loadCertificates"
  /\ loads' = Append(loads, certificateFilename)
  /\ \E o \in StepOutcomes :
       IF o = "ok"
         THEN LET ret == LoadCertificatesResult(certificateFilename, bundles)
              IN /\ loaded' = IF ret THEN "true" ELSE "false"
                 /\ IF AfterLoad(ret) = "deleteReturn"
                      THEN /\ conns' = [conns EXCEPT ![socket] = "Destroyed"]
                           /\ result' = "null"
                           /\ pc' = "done"
                      ELSE /\ conns' = [conns EXCEPT ![socket] =
                                          IF ret THEN "CertificateLoaded" ELSE @]
                           /\ result' = result
                           /\ pc' = "secureAccept"
                 /\ UNCHANGED <<exc, raisedAt>>
         ELSE /\ Raise(o, "loadCertificates")
              /\ UNCHANGED <<conns, result, loaded>>
  /\ UNCHANGED <<armed, queue, socket, certificateFilename, rearms, handshakes,
                 env>>
  /\ UNCHANGED <<lastPath, monitor>>

\* Lines 76-78: socket->secureAccept(); return the socket.
SecureAccept ==
  /\ pc = "secureAccept"
  /\ handshakes' = handshakes \cup {socket}
  /\ \E o \in StepOutcomes :
       IF o = "ok"
         THEN /\ conns' = [conns EXCEPT ![socket] = "HandshakeInProgress"]
              /\ result' = "socket"
              /\ pc' = "done"
              /\ UNCHANGED <<exc, raisedAt>>
         ELSE /\ Raise(o, "secureAccept")
              /\ UNCHANGED <<conns, result>>
  /\ UNCHANGED <<armed, queue, socket, certificateFilename, loads, loaded,
                 rearms, env>>
  /\ UNCHANGED <<lastPath, monitor>>

\* Lines 79-91: both handlers delete the socket and re-arm when socket is not
\* NULL; the first returns NULL, the second rethrows.
Catch ==
  /\ pc = "catch"
  /\ IF HandlerCleans(socket)
       THEN /\ conns' = [conns EXCEPT ![socket] = "Destroyed"]
            /\ SetListeningJob
       ELSE UNCHANGED <<conns, armed, rearms>>
  /\ result' = HandlerResult(exc)
  /\ pc' = "done"
  /\ UNCHANGED <<queue, socket, exc, raisedAt, certificateFilename, loads, env,
                 hist>>
  /\ UNCHANGED <<lastPath, monitor>>

\* The caller takes the result; the record of the call stays until the next.
Return ==
  /\ pc = "done"
  /\ pc' = "idle"
  /\ UNCHANGED <<armed, queue, socket, conns, exc, raisedAt,
                 certificateFilename, loads, rearms, result, env, hist>>
  /\ UNCHANGED <<lastPath, monitor>>

Next ==
  \/ ClientArrives
  \/ ClientWithdraws
  \/ SetTlsCertFile
  \/ Dispatch
  \/ AcceptSocket
  \/ Construct
  \/ InitSsl
  \/ RearmAndResolve
  \/ LoadCertificates
  \/ SecureAccept
  \/ Catch
  \/ Return

Spec == Init /\ [][Next]_vars

\* The reactor runs a dispatched accept() to completion and delivers a
\* readiness event to a registered job whenever a connection is pending.
FairSpec ==
  /\ Spec
  /\ WF_vars(Dispatch)
  /\ WF_vars(AcceptSocket)
  /\ WF_vars(Construct)
  /\ WF_vars(InitSsl)
  /\ WF_vars(RearmAndResolve)
  /\ WF_vars(LoadCertificates)
  /\ WF_vars(SecureAccept)
  /\ WF_vars(Catch)
  /\ WF_vars(Return)

\* ----------------------------------------------------------- NetworkMonitor
\* The listener as constructed, with one configuration.
ListenerConstructed ==
  /\ armed = TRUE
  /\ pending = 0
  /\ arrived = 0
  /\ pc = "idle"
  /\ socket = NULL
  /\ conns = <<>>
  /\ exc = "none"
  /\ raisedAt = "none"
  /\ certificateFilename = ""
  /\ loads = <<>>
  /\ loaded = "unset"
  /\ handshakes = {}
  /\ rearms = 0
  /\ lastPath = ""
  /\ result = "none"
  /\ m_tlsCertFile = ""
  /\ profileDirectory = "/p"
  /\ bundles = {}

MonitorInit ==
  /\ ListenerConstructed
  /\ MonitorConstructed
  /\ allInterfaces \in Hosts

\* Lines 171-212: what updateNetworkState compares.
StateChanged ==
  LET currentAddresses == GetAvailableIPv4Addresses(allInterfaces)
      currentInterfaces == GetActiveNetworkInterfaces(allInterfaces)
  IN \/ AddressesChanged(currentAddresses, m_lastAddresses)
     \/ InterfacesChanged(currentInterfaces, m_lastNetworkInterfaces)
     \/ SelectedIPChanged(m_selectedIPAddress, currentAddresses)

\* NetworkMonitor::updateNetworkState, lines 169-225; it returns StateChanged.
UpdateNetworkState ==
  LET currentAddresses == GetAvailableIPv4Addresses(allInterfaces)
      currentInterfaces == GetActiveNetworkInterfaces(allInterfaces)
  IN /\ IF StateChanged
          THEN /\ m_lastAddresses' = currentAddresses
               /\ m_lastActiveInterfaces' = Names(currentInterfaces)
               /\ m_lastNetworkInterfaces' = currentInterfaces
          ELSE UNCHANGED recorded
     /\ reportsInARow' =
          IF StateChanged
            THEN (IF reportsInARow < 2 THEN reportsInARow + 1 ELSE 2)
            ELSE 0

\* NetworkMonitor::startMonitoring, lines 24-36
StartMonitoring ==
  /\ answer = NoAnswer
  /\ \E intervalMs \in Intervals :
       IF StartReturnsEarly(m_isMonitoring)
         THEN /\ answer' = Answer("startMonitoring", FALSE, {})
              /\ UNCHANGED <<recorded, timer, reportsInARow>>
         ELSE /\ UpdateNetworkState
              /\ timerActive' = TRUE
              /\ timerInterval' = intervalMs
              /\ m_isMonitoring' = TRUE
              /\ answer' = Answer("startMonitoring", TRUE, {})
  /\ UNCHANGED <<listener, allInterfaces, m_selectedIPAddress>>

\* NetworkMonitor::stopMonitoring, lines 38-46
StopMonitoring ==
  /\ answer = NoAnswer
  /\ IF StopReturnsEarly(m_isMonitoring)
       THEN /\ answer' = Answer("stopMonitoring", FALSE, {})
            /\ UNCHANGED timer
       ELSE /\ timerActive' = FALSE
            /\ m_isMonitoring' = FALSE
            /\ answer' = Answer("stopMonitoring", TRUE, {})
            /\ UNCHANGED timerInterval
  /\ UNCHANGED <<listener, allInterfaces, recorded, m_selectedIPAddress,
                 reportsInARow>>

\* NetworkMonitor::refreshNetwork, lines 48-54
RefreshNetwork ==
  /\ answer = NoAnswer
  /\ UpdateNetworkState
  /\ answer' = Answer("refreshNetwork", StateChanged,
                      IF StateChanged THEN {"networkConfigurationChanged"}
                                      ELSE {})
  /\ UNCHANGED <<listener, allInterfaces, m_selectedIPAddress, timer>>

\* NetworkMonitor::checkNetworkState, lines 157-167, the slot of the timer
\* (line 21): it runs when the running timer times out.
CheckNetworkState ==
  /\ answer = NoAnswer
  /\ timerActive
  /\ UpdateNetworkState
  /\ answer' = Answer("checkNetworkState", StateChanged,
                      IF StateChanged
                        THEN {"networkConfigurationChanged", "ipAddressesChanged"}
                               \cup (IF HasMultipleActiveNetworks(allInterfaces)
                                       THEN {"multipleNetworksDetected"}
                                       ELSE {})
                        ELSE {})
  /\ UNCHANGED <<listener, allInterfaces, m_selectedIPAddress, timer>>

\* NetworkMonitor::setSelectedIPAddress, lines 242-245
SetSelectedIPAddress ==
  /\ answer = NoAnswer
  /\ \E address \in SelectableAddresses \ {m_selectedIPAddress} :
       m_selectedIPAddress' = address
  /\ reportsInARow' = 0
  /\ UNCHANGED <<listener, allInterfaces, recorded, timer, answer>>

\* A call of getSuggestedIPv4Address() (const).
AskSuggestedIPv4Address ==
  /\ answer = NoAnswer
  /\ answer' = Answer("getSuggestedIPv4Address",
                      GetSuggestedIPv4Address(
                        m_selectedIPAddress,
                        GetAvailableIPv4Addresses(allInterfaces)),
                      {})
  /\ UNCHANGED <<listener, allInterfaces, recorded, m_selectedIPAddress, timer,
                 reportsInARow>>

\* A call of hasNetworkChanged() (const).
AskHasNetworkChanged ==
  /\ answer = NoAnswer
  /\ answer' = Answer("hasNetworkChanged",
                      HasNetworkChanged(allInterfaces, m_lastAddresses,
                                        m_selectedIPAddress),
                      {})
  /\ UNCHANGED <<listener, allInterfaces, recorded, m_selectedIPAddress, timer,
                 reportsInARow>>

\* The caller has read what the operation gave back.
AnswerTaken ==
  /\ answer # NoAnswer
  /\ answer' = NoAnswer
  /\ UNCHANGED <<listener, allInterfaces, recorded, m_selectedIPAddress, timer,
                 reportsInARow>>

\* One network card of the host changes its link state or its addresses.
HostChanges ==
  /\ answer = NoAnswer
  /\ \E h \in Hosts :
       /\ Cardinality({i \in DOMAIN h : h[i] # allInterfaces[i]}) = 1
       /\ allInterfaces' = h
  /\ reportsInARow' = 0
  /\ UNCHANGED <<listener, recorded, m_selectedIPAddress, timer, answer>>

MonitorNext ==
  \/ StartMonitoring
  \/ StopMonitoring
  \/ RefreshNetwork
  \/ CheckNetworkState
  \/ SetSelectedIPAddress
  \/ AskSuggestedIPv4Address
  \/ AskHasNetworkChanged
  \/ AnswerTaken
  \/ HostChanges

MonitorSpec == MonitorInit /\ [][MonitorNext]_vars

TypeOK ==
  /\ armed \in BOOLEAN
  /\ pending \in 0..MaxClients
  /\ arrived \in 0..MaxClients
  /\ pc \in {"idle", "acceptSocket", "construct", "initSsl", "rearm",
             "loadCertificates", "secureAccept", "catch", "done"}
  /\ socket \in 0..Len(conns)
  /\ Len(conns) <= MaxClients
  /\ exc \in Exceptions \cup {"none"}
  /\ rearms \in 0..2
  /\ result \in {"none", "null", "socket", "throw"}
  /\ loaded \in {"unset", "true", "false"}
  /\ handshakes \subseteq 1..Len(conns)

\* ----------------------------------------------------------------- claims
DefaultPath == profileDirectory \o "/tls/" \o "deskflow" \o ".pem"

\* C1: whenever an accept() call has returned or thrown, whatever the outcome
\* of each of its steps, the listening job is registered.
C1_ArmedAfterEveryCall == pc = "done" => armed

\* C2: after a call that ended in an absorbed failure (empty result, nothing
\* thrown), a client that is pending while the listener is idle is eventually
\* dispatched to accept(), unless it withdraws first.
C2_ServiceContinues ==
  (pc = "idle" /\ result = "null" /\ pending > 0)
    ~> (pc = "acceptSocket" \/ pending = 0)

\* C3: a call whose raw accept raised a network-layer error ends with the
\* empty result, nothing thrown, and exactly one setListeningJob().
C3_NetworkErrorOneRearm ==
  (pc = "done" /\ raisedAt = "acceptSocket" /\ exc = "XArchNetwork")
    => (result = "null" /\ rearms = 1)

\* C4: certificate loading and handshake initiation run only after the call
\* has re-armed: while a call is at, or has passed, loadCertificates or
\* secureAccept, the listening job is registered and was registered by it.
C4_RearmBeforeCertAndHandshake ==
  /\ pc \in {"loadCertificates", "secureAccept"} => armed /\ rearms >= 1
  /\ (pc # "idle" /\ (Len(loads) > 0 \/ socket \in handshakes))
       => armed /\ rearms >= 1

C4_Witness ==
  /\ pc = "secureAccept"
  /\ Len(loads) = 1
  /\ armed
  /\ rearms = 1

\* C5: when loadCertificates returns false the call destroys the connection,
\* returns the empty result without raising, starts no handshake on it, and
\* the listener is armed when the call ends and stays so until the next
\* dispatch.
C5_CertLoadFailure ==
  (pc \in {"secureAccept", "catch", "done", "idle"} /\ loaded = "false")
    => /\ pc \in {"done", "idle"}
       /\ result = "null"
       /\ exc = "none"
       /\ conns[socket] = "Destroyed"
       /\ socket \notin handshakes
       /\ armed

C5_Witness ==
  /\ pc = "done"
  /\ loaded = "false"
  /\ result = "null"
  /\ conns[socket] = "Destroyed"
  /\ armed

\* C6: a call that propagates an unexpected error has, whichever step raised
\* it, destroyed the connection it created and re-armed the listening job.
C6_UnexpectedCleansAndRearms ==
  (pc = "done" /\ result = "throw")
    => /\ rearms >= 1
       /\ armed
       /\ socket # NULL => conns[socket] = "Destroyed"

\* C7: an exception leaves accept() exactly when a step raised an error that
\* is not a network-layer error; network-layer errors at any step (the
\* would-block of an empty queue included) and certificate load failures end
\* in the empty result.
C7_OnlyUnexpectedPropagates ==
  pc = "done"
    => /\ result = "throw" <=> exc = "std_exception"
       /\ exc \in XArchNetworkKinds => result = "null"
       /\ loaded = "false" => result = "null"
       /\ result = "socket" => exc = "none" /\ loaded = "true"

C7_Witness ==
  /\ pc = "done"
  /\ exc = "XArchNetwork"
  /\ raisedAt = "secureAccept"
  /\ result = "null"

\* C8: the path given to loadCertificates is the override when that is not
\* empty, else profile directory + "/tls/" + application id + ".pem".
C8_CertificatePath ==
  (pc # "idle" /\ Len(loads) > 0)
    => /\ loads[1] = IF m_tlsCertFile # "" THEN m_tlsCertFile ELSE DefaultPath
       /\ (m_tlsCertFile = "" /\ profileDirectory = "/home/u/.config/app")
            => loads[1] = "/home/u/.config/app/tls/deskflow.pem"

C8_Witness ==
  /\ pc = "secureAccept"
  /\ m_tlsCertFile = ""
  /\ loads = <<"/home/u/.config/app/tls/deskflow.pem">>

\* C9: with a non-empty override, a call invokes loadCertificates at most
\* once and only with the override; when that bundle does not load the call
\* ends with the empty result, also when the default bundle would load.
C9_NoFallbackToDefault ==
  (pc # "idle" /\ m_tlsCertFile # "")
    => /\ Len(loads) <= 1
       /\ \A i \in DOMAIN loads : loads[i] = m_tlsCertFile
       /\ (pc = "done" /\ exc = "none" /\ m_tlsCertFile \notin bundles)
            => result = "null" /\ loaded = "false" /\ Len(loads) = 1

C9_Witness ==
  /\ pc = "done"
  /\ m_tlsCertFile = "X"
  /\ "X" \notin bundles
  /\ DefaultPath \in bundles
  /\ loads = <<"X">>
  /\ result = "null"

\* C10: no accept() call issues more than one setListeningJob().
C10_AtMostOneRearmPerCall == rearms <= 1

ExpectedPath == IF m_tlsCertFile # "" THEN m_tlsCertFile ELSE DefaultPath

\* C11: every constructed connection is a new object, and a call changes the
\* state of no connection but the one it constructed: a connection left
\* Destroyed or HandshakeInProgress by an earlier call is never touched, and
\* a call returns its connection exactly when its own certificate load
\* succeeded and none of its own steps raised.
C11_IndependentConnections ==
  /\ [][/\ Len(conns') >= Len(conns)
        /\ \A i \in DOMAIN conns :
             conns'[i] # conns[i]
               => i = socket /\ conns[i] \in {"Created", "CertificateLoaded"}
        /\ Len(conns') > Len(conns)
             => /\ socket' = Len(conns')
                /\ socket' \notin DOMAIN conns
                /\ conns'[socket'] = "Created"]_vars
  /\ [](pc = "done" => (result = "socket" <=> exc = "none" /\ loaded = "true"))

C11_Witness ==
  /\ pc = "done"
  /\ Len(conns) = 2
  /\ conns[1] = "Destroyed"
  /\ lastPath # ""
  /\ lastPath \notin bundles
  /\ socket = 2
  /\ conns[2] = "HandshakeInProgress"
  /\ result = "socket"

\* C12: a call whose raw accept found nothing pending re-arms the listening
\* job and returns the empty result, having created no connection and loaded
\* no certificate.
C12_BenignRaceRearms ==
  (pc = "done" /\ exc = "XArchNetworkWouldBlock")
    => /\ result = "null"
       /\ socket = NULL
       /\ Len(loads) = 0
       /\ rearms >= 1
       /\ armed

\* C13: secureAccept is called on a connection only after loadCertificates
\* returned true on it, and a connection is returned only after secureAccept
\* returned on it without raising.
C13_LoadThenHandshake ==
  /\ pc = "secureAccept"
       => /\ loaded = "true"
          /\ conns[socket] = "CertificateLoaded"
          /\ loads = <<certificateFilename>>
  /\ (socket # NULL /\ socket \in handshakes) => loaded = "true"
  /\ \A i \in DOMAIN conns :
       /\ conns[i] = "HandshakeInProgress" => i \in handshakes
       /\ conns[i] = "CertificateLoaded" => i = socket /\ loaded = "true"
  /\ result = "socket"
       => /\ socket \in handshakes
          /\ conns[socket] = "HandshakeInProgress"
          /\ exc = "none"

C13_Witness ==
  /\ pc = "done"
  /\ result = "socket"
  /\ loaded = "true"
  /\ socket \in handshakes
  /\ conns[socket] = "HandshakeInProgress"

\* C14: a call that follows one which resolved a path resolves its own path
\* from the override as it is now, whatever path the earlier call used.
C14_OverrideReadAfresh ==
  (pc # "idle" /\ lastPath # "" /\ Len(loads) > 0)
    => /\ loads[1] = ExpectedPath
       /\ certificateFilename = ExpectedPath

C14_Witness ==
  /\ pc = "secureAccept"
  /\ lastPath = "X"
  /\ m_tlsCertFile = "/etc/alt.pem"
  /\ loads = <<"/etc/alt.pem">>

\* C15 as stated: a call made while no listening job is registered is
\* rejected, so no call gets past its entry unarmed.
C15_UnarmedCallRejected == pc \in {"construct", "initSsl"} => armed

\* C15 as amended: accept() does not look at the registration.  Every call
\* starts with no listening job registered and is not refused: the raw
\* accept can run, and the call stays unarmed until line 57.
C15_UnarmedCallProceeds ==
  /\ pc = "acceptSocket" => ~armed /\ ENABLED AcceptSocket
  /\ pc \in {"construct", "initSsl"} => ~armed

C15_Witness ==
  /\ pc = "done"
  /\ result = "socket"
  /\ rearms = 1

\* C19: when a call that constructed its connection exits, the listener is
\* armed, and unless the call returns the connection it has destroyed it.
C19_ConstructedExitsArmed ==
  (pc = "done" /\ socket # NULL)
    => /\ armed
       /\ rearms >= 1
       /\ result # "socket" => conns[socket] = "Destroyed"
       /\ result = "socket" => conns[socket] = "HandshakeInProgress"

C19_Witness ==
  /\ pc = "done"
  /\ socket # NULL
  /\ raisedAt = "initSsl"
  /\ result = "throw"
  /\ conns[socket] = "Destroyed"
  /\ armed

Range(list) == {list[i] : i \in DOMAIN list}
Available == GetAvailableIPv4Addresses(allInterfaces)

\* C16: with the host's interfaces and addresses and the selected address
\* unchanged, two updates in a row never both report a change.
C16_NoRepeatedReport == reportsInARow <= 1

\* C17: getSuggestedIPv4Address gives the selected address when it is set
\* and available, else the first available address in 192.168.0.0/16, else
\* the first available address, else the null address; what it gives is null
\* or a member of the available list, and null only when that list is empty.
C17_SuggestedAddress ==
  answer.op = "getSuggestedIPv4Address"
    => LET r == answer.value
           selectedThere == /\ m_selectedIPAddress # NullAddress
                            /\ m_selectedIPAddress \in Range(Available)
           homes == {i \in DOMAIN Available :
                       Available[i].o[1] = 192 /\ Available[i].o[2] = 168}
       IN /\ selectedThere => r = m_selectedIPAddress
          /\ (~selectedThere /\ homes # {})
               => r = Available[CHOOSE i \in homes : \A j \in homes : i <= j]
          /\ (~selectedThere /\ homes = {} /\ Available # <<>>)
               => r = Available[1]
          /\ Available = <<>> => r = NullAddress
          /\ r = NullAddress \/ r \in Range(Available)
          /\ r = NullAddress <=> Available = <<>>

C17_Witness ==
  /\ answer.op = "getSuggestedIPv4Address"
  /\ m_selectedIPAddress = NullAddress
  /\ Available = <<Ten, Home>>
  /\ answer.value = Home

\* C18: hasNetworkChanged gives true whenever the set of available addresses
\* differs from the recorded one or the set of active interfaces differs
\* from the recorded one (checked once an update has recorded a state with
\* an active interface).
C18_EveryChangeSeen ==
  (answer.op = "hasNetworkChanged" /\ m_lastNetworkInterfaces # <<>>)
    => LET active == GetActiveNetworkInterfaces(allInterfaces)
       IN (\/ Range(Available) # Range(m_lastAddresses)
           \/ Range(Names(active)) # Range(Names(m_lastNetworkInterfaces)))
            => answer.value = TRUE

\* C20: the monitoring flag is true exactly when the timer runs;
\* startMonitoring while monitoring changes neither the recorded state nor
\* the timer, and otherwise starts the timer; stopMonitoring while not
\* monitoring changes nothing; checkNetworkState runs only while monitoring.
C20_FlagTracksTimer ==
  /\ [](m_isMonitoring <=> timerActive)
  /\ [][(answer'.op = "startMonitoring" /\ m_isMonitoring)
          => /\ UNCHANGED <<recorded, timer, reportsInARow>>
             /\ answer'.value = FALSE]_vars
  /\ [][(answer'.op = "startMonitoring" /\ ~m_isMonitoring)
          => /\ m_isMonitoring'
             /\ timerActive'
             /\ timerInterval' \in Intervals]_vars
  /\ [][(answer'.op = "stopMonitoring" /\ ~m_isMonitoring)
          => UNCHANGED <<recorded, timer, reportsInARow>>]_vars
  /\ [][(answer'.op = "stopMonitoring" /\ m_isMonitoring)
          => ~m_isMonitoring' /\ ~timerActive']_vars
  /\ [][answer'.op = "checkNetworkState" => m_isMonitoring]_vars

C20_Witness ==
  /\ answer = Answer("startMonitoring", FALSE, {})
  /\ m_isMonitoring
  /\ timerActive
  /\ timerInterval = 1000
====
